---- MODULE Spec2Model ----
(***************************************************************************)
(* Queue / credit engine of the live assistant: QueueManager               *)
(* (src/queue_manager/manager.py), the roster file helpers                 *)
(* (src/utils/__init__.py) and the draw handlers of the queue window       *)
(* (src/gui/queue_window_simple.py).                                       *)
(*                                                                         *)
(* QueueItem objects are shared by reference between name_list and         *)
(* queue_list, so the model keeps a heap of objects and both lists hold    *)
(* object ids.  cutline_list holds objects that nothing else refers to,    *)
(* they are kept by value.                                                 *)
(***************************************************************************)
EXTENDS Integers, Sequences, FiniteSets, TLC

VARIABLES heap, name_list, queue_list, cutline_list,
          user_queued, user_boarded, user_cutline,
          queue_started, boarding_started, cutline_started,
          recent_winners, is_animating, pending,
          file, state_file, last

store   == <<heap, name_list, queue_list>>
sets    == <<user_queued, user_boarded, user_cutline>>
flags   == <<queue_started, boarding_started, cutline_started>>
lottery == <<recent_winners, is_animating, pending>>
vars    == <<store, cutline_list, sets, flags, lottery, file, state_file, last>>

(***************************************************************************)
(* Bounds and program constants                                            *)
(***************************************************************************)
Names == {"A", "B"}

MaxGrant == 1
MaxRoster == 2
MaxQueue == 2
MaxDebt == 2
MaxLate == 1

CUTLINE_COST == 2
NORMAL_COST == 1
RingCapacity == 10
DrawCount == 2

(***************************************************************************)
(* Sequence helpers                                                        *)
(***************************************************************************)
Range(s) == {s[i] : i \in DOMAIN s}

RemoveAt(s, i) == [k \in 1..(Len(s) - 1) |-> IF k < i THEN s[k] ELSE s[k + 1]]

RECURSIVE SumSeq(_)
SumSeq(s) == IF s = <<>> THEN 0 ELSE Head(s) + SumSeq(Tail(s))

\* list.sort(key=...): stable, ascending by key[x]
RECURSIVE InsertAsc(_, _, _)
InsertAsc(s, x, key) ==
    IF s = <<>> THEN <<x>>
    ELSE IF key[Head(s)] <= key[x] THEN <<Head(s)>> \o InsertAsc(Tail(s), x, key)
    ELSE <<x>> \o s

RECURSIVE SortAsc(_, _)
SortAsc(s, key) ==
    IF s = <<>> THEN <<>>
    ELSE InsertAsc(SortAsc(SubSeq(s, 1, Len(s) - 1), key), s[Len(s)], key)

\* list.sort(key=..., reverse=True): stable, descending by key[x]
RECURSIVE InsertDesc(_, _, _)
InsertDesc(s, x, key) ==
    IF s = <<>> THEN <<x>>
    ELSE IF key[Head(s)] >= key[x] THEN <<Head(s)>> \o InsertDesc(Tail(s), x, key)
    ELSE <<x>> \o s

RECURSIVE SortDesc(_, _)
SortDesc(s, key) ==
    IF s = <<>> THEN <<>>
    ELSE InsertDesc(SortDesc(SubSeq(s, 1, Len(s) - 1), key), s[Len(s)], key)

(***************************************************************************)
(* QueueItem and the object heap                                           *)
(***************************************************************************)
QueueItem(name, count, index, is_cutline) ==
    [name |-> name, count |-> count, index |-> index, is_cutline |-> is_cutline,
     in_queue |-> FALSE, in_boarding |-> FALSE]

\* key function of sort(key=lambda x: x.index) over object ids
IndexOf(h) == [i \in DOMAIN h |-> h[i].index]

\* key function of sort(key=lambda x: x.index) over objects kept by value
IndexOfItem(s) == [r \in Range(s) |-> r.index]

\* ids of objects that only queue_list still refers to, in order of first use
RECURSIVE StaleIds(_, _, _)
StaleIds(ql, nl, seen) ==
    IF ql = <<>> THEN <<>>
    ELSE IF Head(ql) \in Range(nl) \cup seen THEN StaleIds(Tail(ql), nl, seen)
    ELSE <<Head(ql)>> \o StaleIds(Tail(ql), nl, seen \cup {Head(ql)})

\* Drop unreachable objects and renumber the reachable ones: the roster
\* objects in name_list order, then the objects only queue_list refers to.
\* Object identity (which references alias) is preserved.
Canon(h, nl, ql) ==
    LET order == nl \o StaleIds(ql, nl, {})
        ren   == [old \in Range(order) |-> CHOOSE k \in DOMAIN order : order[k] = old]
    IN [heap       |-> [k \in DOMAIN order |-> h[order[k]]],
        name_list  |-> [k \in DOMAIN nl |-> ren[nl[k]]],
        queue_list |-> [k \in DOMAIN ql |-> ren[ql[k]]]]

Commit(h, nl, ql) ==
    LET c == Canon(h, nl, ql)
    IN /\ heap' = c.heap
       /\ name_list' = c.name_list
       /\ queue_list' = c.queue_list

(***************************************************************************)
(* Roster file: one line per entry, "name" or "name（N"; a blank line is   *)
(* the empty string.  A line is kept as its name part and its numeric      *)
(* suffix, num = 0 standing for "no suffix".                               *)
(***************************************************************************)
Blank == [name |-> "", num |-> 0]

Line(name, num) == [name |-> name, num |-> num]

\* a row whose bytes the reader cannot decode: reading raises there
Undecodable == [name |-> "", num |-> -1]

\* the content standing for "no file at this path"
NoFile == <<[name |-> "", num |-> -2]>>

\* os.path.exists(name_list_file)
file_exists(f) == f # NoFile

\* roster files the engine is constructed on
InitFiles == { <<Line("A", 0), Line("A", 2)>>,
               <<Line("A", 0), Line("B", 0)>>,
               <<Blank, Line("A", 0)>>,
               <<Line("B", 2)>> }

\* contents the roster file is given by an edit outside the program
Files == InitFiles \cup { <<Line("B", 0), Line("A", 0)>>,
                          <<Line("A", 0)>> }

\* edits that leave the file unreadable or remove it
BrokenFiles == { <<Undecodable>>, NoFile }

\* what the watcher is shown: reordered, shortened, unreadable, removed
WatchedFiles == BrokenFiles \cup { <<Line("B", 0), Line("A", 0)>>,
                                  <<Line("A", 0)>> }

\* what the watcher is shown while a draw is animated: a shortened file
PolledFiles == { <<Line("A", 0)>> }

\* parse_name_count on a line: a missing suffix means 1
parse_name_count(line) ==
    [name |-> line.name, count |-> IF line.num > 0 THEN line.num ELSE 1]

\* a format that writes the suffix for every count
format_name_count_always_suffix(name, count) == [name |-> name, num |-> count]

\* format_name_count: the suffix is written only when count > 1
format_name_count(name, count) ==
    IF count <= 1 THEN [name |-> name, num |-> 0] ELSE [name |-> name, num |-> count]

\* load_name_list_from_csv: blank rows are skipped, index is the row ordinal;
\* a missing file gives the empty list, and so does an exception while
\* reading: it is caught and the rows read before it are returned
RECURSIVE load_name_list_from_csv(_, _)
load_name_list_from_csv(f, row) ==
    IF row > Len(f) \/ ~file_exists(f) THEN <<>>
    ELSE IF f[row] = Undecodable THEN <<>>
    ELSE IF f[row] = Blank THEN load_name_list_from_csv(f, row + 1)
    ELSE <<[name  |-> parse_name_count(f[row]).name,
            count |-> parse_name_count(f[row]).count,
            index |-> row]>> \o load_name_list_from_csv(f, row + 1)

\* save_name_list_to_csv on the whole roster: entries with count > 0, by index
save_name_list_to_csv(h, nl) ==
    LET valid  == SelectSeq(nl, LAMBDA i : h[i].count > 0)
        sorted == SortAsc(valid, IndexOf(h))
    IN [k \in DOMAIN sorted |-> format_name_count(h[sorted[k]].name, h[sorted[k]].count)]

\* load_name_list: fresh QueueItem objects, one per loaded entry
NewItems(f) ==
    LET data == load_name_list_from_csv(f, 1)
    IN [k \in DOMAIN data |-> QueueItem(data[k].name, data[k].count, data[k].index, FALSE)]

(***************************************************************************)
(* State file: the JSON document save_state writes and load_state reads    *)
(***************************************************************************)
\* no state file on disk
NoState == [present |-> FALSE]

\* _item_to_dict
item_to_dict(item) ==
    [name |-> item.name, count |-> item.count, index |-> item.index,
     is_cutline |-> item.is_cutline, in_queue |-> item.in_queue,
     in_boarding |-> item.in_boarding]

\* _dict_to_item
dict_to_item(item_dict) ==
    [QueueItem(item_dict.name, item_dict.count, item_dict.index,
               item_dict.is_cutline)
       EXCEPT !.in_queue = item_dict.in_queue,
              !.in_boarding = item_dict.in_boarding]

\* state_data of save_state; the two name sets are written as JSON lists and
\* read back with set(), which keeps the members and nothing else
save_state(h, nl, ql) ==
    [present          |-> TRUE,
     queue_started    |-> queue_started,
     boarding_started |-> boarding_started,
     user_queued      |-> user_queued,
     user_boarded     |-> user_boarded,
     queue_list       |-> [k \in DOMAIN ql |-> item_to_dict(h[ql[k]])],
     name_list        |-> [k \in DOMAIN nl |-> item_to_dict(h[nl[k]])]]

(***************************************************************************)
(* Result of the last engine call                                          *)
(***************************************************************************)
\* sel holds the positions random_select returns, <<>> for every other call
Ret(op, name, idx, ok) ==
    [op |-> op, name |-> name, idx |-> idx, ok |-> ok, sel |-> <<>>]

\* no call has returned since the command loop took up its next event
Idle == Ret("idle", "", 0, TRUE)

\* (selected_indices, selected_names) kept by the callback of the animation,
\* and the animation thread: where its run() is ("none" without a thread,
\* "select" before it picks the rows of a frame, "emit" before it reads their
\* names, "dead" after an exception ended run()), the rows it picked and the
\* names it showed last
NoSelection == [indices |-> <<>>, names |-> <<>>,
                thread |-> "none", picked |-> <<>>, frame |-> <<>>]

Init ==
    /\ \E f \in InitFiles :
          /\ file = f
          /\ heap = NewItems(f)
          /\ name_list = [k \in DOMAIN NewItems(f) |-> k]
    /\ queue_list = <<>>
    /\ cutline_list = <<>>
    /\ user_queued = {}
    /\ user_boarded = {}
    /\ user_cutline = {}
    /\ queue_started = FALSE
    /\ boarding_started = FALSE
    /\ cutline_started = FALSE
    /\ recent_winners = <<>>
    /\ is_animating = FALSE
    /\ pending = NoSelection
    /\ state_file = NoState
    /\ last = Idle

(***************************************************************************)
(* Start / stop of the three sub-queues                                    *)
(***************************************************************************)
start_queue ==
    /\ queue_started' = TRUE
    /\ user_queued' = {}
    /\ last' = Ret("start_queue", "", 0, TRUE)
    /\ UNCHANGED <<store, cutline_list, user_boarded, user_cutline,
                   boarding_started, cutline_started, lottery, state_file, file>>

stop_queue ==
    /\ queue_started' = FALSE
    /\ last' = Ret("stop_queue", "", 0, TRUE)
    /\ UNCHANGED <<store, cutline_list, sets,
                   boarding_started, cutline_started, lottery, state_file, file>>

start_boarding ==
    /\ boarding_started' = TRUE
    /\ last' = Ret("start_boarding", "", 0, TRUE)
    /\ UNCHANGED <<store, cutline_list, sets,
                   queue_started, cutline_started, lottery, state_file, file>>

stop_boarding ==
    /\ boarding_started' = FALSE
    /\ last' = Ret("stop_boarding", "", 0, TRUE)
    /\ UNCHANGED <<store, cutline_list, sets,
                   queue_started, cutline_started, lottery, state_file, file>>

start_cutline ==
    /\ cutline_started' = TRUE
    /\ user_cutline' = {}
    /\ last' = Ret("start_cutline", "", 0, TRUE)
    /\ UNCHANGED <<store, cutline_list, user_queued, user_boarded,
                   queue_started, boarding_started, lottery, state_file, file>>

stop_cutline ==
    /\ cutline_started' = FALSE
    /\ last' = Ret("stop_cutline", "", 0, TRUE)
    /\ UNCHANGED <<store, cutline_list, sets,
                   queue_started, boarding_started, lottery, state_file, file>>

(***************************************************************************)
(* Admissions                                                              *)
(***************************************************************************)
\* _find_available_item: smallest-index entry of the name with count > 0
\* whose in_queue flag is clear; 0 stands for None
find_available_item(h, nl, username) ==
    LET matched == SelectSeq(nl, LAMBDA i : /\ h[i].name = username
                                            /\ h[i].count > 0
                                            /\ ~h[i].in_queue)
    IN IF matched = <<>> THEN 0 ELSE SortAsc(matched, IndexOf(h))[1]

\* the two early returns of process_queue_request
queue_request_rejected(username) ==
    ~queue_started \/ username \in user_queued

\* process_queue_request: the chosen entry is appended and the list sorted.
\* The assignment matched_item.in_queue = True sits inside the comment of
\* line 333 and is not executed.
process_queue_request(username) ==
    LET m == find_available_item(heap, name_list, username)
    IN IF queue_request_rejected(username) \/ m = 0
       THEN /\ last' = Ret("process_queue_request", username, 0, FALSE)
            /\ UNCHANGED <<store, cutline_list, sets, flags, lottery, state_file, file>>
       ELSE /\ Commit(heap, name_list, SortAsc(Append(queue_list, m), IndexOf(heap)))
            /\ user_queued' = user_queued \cup {username}
            /\ last' = Ret("process_queue_request", username, heap[m].index, TRUE)
            /\ UNCHANGED <<cutline_list, user_boarded, user_cutline, flags, lottery, state_file, file>>

\* a normal request that is only admitted while the queue holds fewer than
\* limit tickets
queue_request_within(username, limit) ==
    /\ ( /\ ~queue_request_rejected(username)
         /\ find_available_item(heap, name_list, username) # 0 )
          => Len(queue_list) < limit
    /\ process_queue_request(username)

\* entries _find_available_item_for_cutline counts: same name, count > 0,
\* in_queue clear; most recent (largest index) first
cutline_matched(h, nl, username) ==
    SortDesc(SelectSeq(nl, LAMBDA i : /\ h[i].name = username
                                      /\ h[i].count > 0
                                      /\ ~h[i].in_queue),
             IndexOf(h))

\* _find_available_item_for_cutline: <<>> stands for None, otherwise a new
\* placeholder item carrying the index of the most recent matched entry
find_available_item_for_cutline(h, nl, username) ==
    LET matched == cutline_matched(h, nl, username)
        total   == SumSeq([k \in DOMAIN matched |-> h[matched[k]].count])
    IN IF matched = <<>> THEN <<>>
       ELSE IF total < CUTLINE_COST THEN <<>>
       ELSE <<QueueItem(username, CUTLINE_COST, h[matched[1]].index, TRUE)>>

\* the two early returns of process_cutline_request
cutline_request_rejected(username) ==
    ~cutline_started \/ username \in user_cutline

\* process_cutline_request: no count is changed at admission
process_cutline_request(username) ==
    LET found == find_available_item_for_cutline(heap, name_list, username)
    IN IF cutline_request_rejected(username) \/ found = <<>>
       THEN /\ last' = Ret("process_cutline_request", username, 0, FALSE)
            /\ UNCHANGED <<store, cutline_list, sets, flags, lottery, state_file, file>>
       ELSE /\ Len(cutline_list) < MaxQueue
            /\ LET item   == [found[1] EXCEPT !.in_queue = TRUE]
                   joined == Append(cutline_list, item)
               IN cutline_list' = SortAsc(joined, IndexOfItem(joined))
            /\ user_cutline' = user_cutline \cup {username}
            /\ last' = Ret("process_cutline_request", username, found[1].index, TRUE)
            /\ UNCHANGED <<store, user_queued, user_boarded, flags, lottery, state_file, file>>

\* _find_available_item_for_boarding: in_queue is not looked at
find_available_item_for_boarding(h, nl, username) ==
    LET matched == SelectSeq(nl, LAMBDA i : /\ h[i].name = username
                                            /\ h[i].count > 0
                                            /\ ~h[i].in_boarding)
    IN IF matched = <<>> THEN 0 ELSE SortAsc(matched, IndexOf(h))[1]

\* a gate that ignores the manual override
boarding_request_rejected_no_override(is_manual) ==
    ~boarding_started

\* first early return of process_boarding_request
boarding_request_rejected(is_manual) ==
    ~boarding_started /\ ~is_manual

process_boarding_request(username, is_manual) ==
    LET m == find_available_item_for_boarding(heap, name_list, username)
        op == IF is_manual THEN "process_boarding_request_manual"
              ELSE "process_boarding_request"
    IN IF boarding_request_rejected(is_manual) \/ username \in user_boarded \/ m = 0
       THEN /\ last' = Ret(op, username, 0, FALSE)
            /\ UNCHANGED <<store, cutline_list, sets, flags, lottery, state_file, file>>
       ELSE /\ Commit([heap EXCEPT ![m].in_boarding = TRUE], name_list, queue_list)
            /\ user_boarded' = user_boarded \cup {username}
            /\ last' = Ret(op, username, heap[m].index, TRUE)
            /\ UNCHANGED <<cutline_list, user_queued, user_cutline, flags, lottery, state_file, file>>

(***************************************************************************)
(* Completions and cancellations                                           *)
(***************************************************************************)
\* _find_original_item: first roster entry with that index; 0 stands for None
find_original_item(h, nl, index) ==
    LET matched == SelectSeq(nl, LAMBDA i : h[i].index = index)
    IN IF matched = <<>> THEN 0 ELSE matched[1]

\* a completion that takes the cost twice
debit_twice(count, deduct_count) == count - 2 * deduct_count

\* count left on the entry complete_queue_item debits
debit(count, deduct_count) == count - deduct_count

\* complete_queue_item(index), pos = index + 1
complete_queue_item(pos) ==
    IF pos \notin DOMAIN queue_list
    THEN /\ last' = Ret("complete_queue_item", "", pos, FALSE)
         /\ UNCHANGED <<store, cutline_list, sets, flags, lottery, state_file, file>>
    ELSE LET item     == queue_list[pos]
             deduct   == IF heap[item].is_cutline THEN CUTLINE_COST ELSE NORMAL_COST
             original == find_original_item(heap, name_list, heap[item].index)
             h1       == IF original # 0
                         THEN [heap EXCEPT ![original].count = debit(@, deduct)]
                         ELSE heap
             h2       == [h1 EXCEPT ![item].in_queue = FALSE]
         IN /\ original # 0 => heap[original].count > -MaxDebt
            /\ Commit(h2, name_list, RemoveAt(queue_list, pos))
            /\ file' = IF original # 0 THEN save_name_list_to_csv(h1, name_list) ELSE file
            /\ last' = Ret("complete_queue_item", heap[item].name, pos, TRUE)
            /\ UNCHANGED <<cutline_list, sets, flags, lottery, state_file>>

\* a cancellation that debits the entry as a completion does
cancel_queue_item_debiting(pos) ==
    IF pos \notin DOMAIN queue_list
    THEN /\ last' = Ret("cancel_queue_item", "", pos, FALSE)
         /\ UNCHANGED <<store, cutline_list, sets, flags, lottery, state_file, file>>
    ELSE LET item     == queue_list[pos]
             original == find_original_item(heap, name_list, heap[item].index)
             h1       == IF original # 0
                         THEN [heap EXCEPT ![original].count = @ - NORMAL_COST]
                         ELSE heap
         IN /\ Commit([h1 EXCEPT ![item].in_queue = FALSE], name_list,
                      RemoveAt(queue_list, pos))
            /\ user_queued' = user_queued \ {heap[item].name}
            /\ last' = Ret("cancel_queue_item", heap[item].name, pos, TRUE)
            /\ UNCHANGED <<cutline_list, user_boarded, user_cutline, flags, lottery, state_file, file>>

\* cancel_queue_item(index), pos = index + 1: no count is changed
cancel_queue_item(pos) ==
    IF pos \notin DOMAIN queue_list
    THEN /\ last' = Ret("cancel_queue_item", "", pos, FALSE)
         /\ UNCHANGED <<store, cutline_list, sets, flags, lottery, state_file, file>>
    ELSE LET item == queue_list[pos]
         IN /\ Commit([heap EXCEPT ![item].in_queue = FALSE], name_list,
                      RemoveAt(queue_list, pos))
            /\ user_queued' = user_queued \ {heap[item].name}
            /\ last' = Ret("cancel_queue_item", heap[item].name, pos, TRUE)
            /\ UNCHANGED <<cutline_list, user_boarded, user_cutline, flags, lottery, state_file, file>>

\* _find_user_in_name_list: first roster entry of the name; 0 stands for None
find_user_in_name_list(h, nl, username) ==
    LET matched == SelectSeq(nl, LAMBDA i : h[i].name = username)
    IN IF matched = <<>> THEN 0 ELSE matched[1]

complete_boarding_item(username) ==
    IF username \notin user_boarded
    THEN /\ last' = Ret("complete_boarding_item", username, 0, FALSE)
         /\ UNCHANGED <<store, cutline_list, sets, flags, lottery, state_file, file>>
    ELSE LET m  == find_user_in_name_list(heap, name_list, username)
             h1 == IF m # 0
                   THEN [heap EXCEPT ![m].count = @ - NORMAL_COST,
                                     ![m].in_boarding = FALSE]
                   ELSE heap
         IN /\ m # 0 => heap[m].count > -MaxDebt
            /\ Commit(h1, name_list, queue_list)
            /\ file' = IF m # 0 THEN save_name_list_to_csv(h1, name_list) ELSE file
            /\ user_boarded' = user_boarded \ {username}
            /\ last' = Ret("complete_boarding_item", username, 0, TRUE)
            /\ UNCHANGED <<cutline_list, user_queued, user_cutline, flags, lottery, state_file>>

delete_boarding_item(username) ==
    IF username \notin user_boarded
    THEN /\ last' = Ret("delete_boarding_item", username, 0, FALSE)
         /\ UNCHANGED <<store, cutline_list, sets, flags, lottery, state_file, file>>
    ELSE LET m  == find_user_in_name_list(heap, name_list, username)
             h1 == IF m # 0 THEN [heap EXCEPT ![m].in_boarding = FALSE] ELSE heap
         IN /\ Commit(h1, name_list, queue_list)
            /\ user_boarded' = user_boarded \ {username}
            /\ last' = Ret("delete_boarding_item", username, 0, TRUE)
            /\ UNCHANGED <<cutline_list, user_queued, user_cutline, flags, lottery, state_file, file>>

\* entries complete_cutline_item debits: same name, count > 0 (in_queue is
\* not looked at), most recent first
cutline_debit_order(h, nl, username) ==
    SortDesc(SelectSeq(nl, LAMBDA i : h[i].name = username /\ h[i].count > 0),
             IndexOf(h))

\* the debit loop of complete_cutline_item
RECURSIVE cutline_debit_walk(_, _, _)
cutline_debit_walk(h, items, remaining_cost) ==
    IF items = <<>> \/ remaining_cost <= 0 THEN h
    ELSE LET item          == Head(items)
             deduct_amount == IF h[item].count < remaining_cost
                              THEN h[item].count ELSE remaining_cost
         IN cutline_debit_walk([h EXCEPT ![item].count = @ - deduct_amount,
                                         ![item].in_queue = FALSE],
                               Tail(items), remaining_cost - deduct_amount)

\* first early return of complete_cutline_item and of delete_cutline_item
cutline_item_unknown(username) ==
    username \notin user_cutline

complete_cutline_item(username) ==
    LET matched == cutline_debit_order(heap, name_list, username)
    IN IF cutline_item_unknown(username) \/ matched = <<>>
       THEN /\ last' = Ret("complete_cutline_item", username, 0, FALSE)
            /\ UNCHANGED <<store, cutline_list, sets, flags, lottery, state_file, file>>
       ELSE LET h1 == cutline_debit_walk(heap, matched, CUTLINE_COST)
            IN /\ Commit(h1, name_list, queue_list)
               /\ file' = save_name_list_to_csv(h1, name_list)
               /\ cutline_list' = SelectSeq(cutline_list, LAMBDA it : it.name # username)
               /\ user_cutline' = user_cutline \ {username}
               /\ last' = Ret("complete_cutline_item", username, 0, TRUE)
               /\ UNCHANGED <<user_queued, user_boarded, flags, lottery, state_file>>

delete_cutline_item(username) ==
    IF cutline_item_unknown(username)
    THEN /\ last' = Ret("delete_cutline_item", username, 0, FALSE)
         /\ UNCHANGED <<store, cutline_list, sets, flags, lottery, state_file, file>>
    ELSE /\ cutline_list' = SelectSeq(cutline_list, LAMBDA it : it.name # username)
         /\ user_cutline' = user_cutline \ {username}
         /\ last' = Ret("delete_cutline_item", username, 0, TRUE)
         /\ UNCHANGED <<store, user_queued, user_boarded, flags, lottery, state_file, file>>

(***************************************************************************)
(* Grants                                                                  *)
(***************************************************************************)
\* a grant that tops up an existing entry of the same name
process_guard_gift_merging(username, count) ==
    LET own == find_user_in_name_list(heap, name_list, username)
    IN IF count <= 0
       THEN /\ last' = Ret("process_guard_gift", username, count, FALSE)
            /\ UNCHANGED <<store, cutline_list, sets, flags, lottery, state_file, file>>
       ELSE /\ Len(name_list) < MaxRoster
            /\ LET new_index == Len(name_list) + 1
                   new_id    == Len(heap) + 1
                   h1        == IF own # 0
                                THEN [heap EXCEPT ![own].count = @ + count]
                                ELSE Append(heap, QueueItem(username, count, new_index, FALSE))
                   nl1       == IF own # 0 THEN name_list ELSE Append(name_list, new_id)
               IN /\ Commit(h1, nl1, queue_list)
                  /\ file' = save_name_list_to_csv(h1, nl1)
            /\ last' = Ret("process_guard_gift", username, count, TRUE)
            /\ UNCHANGED <<cutline_list, sets, flags, lottery, state_file>>

\* process_guard_gift with total_reward_count = count: a new entry is
\* appended at index len(name_list) + 1 and the roster is saved
\* (gift_monitor.auto_save_after_add defaults to True)
process_guard_gift(username, count) ==
    IF count <= 0
    THEN /\ last' = Ret("process_guard_gift", username, count, FALSE)
         /\ UNCHANGED <<store, cutline_list, sets, flags, lottery, state_file, file>>
    ELSE /\ Len(name_list) < MaxRoster
         /\ LET new_index == Len(name_list) + 1
                new_id    == Len(heap) + 1
                h1        == Append(heap, QueueItem(username, count, new_index, FALSE))
                nl1       == Append(name_list, new_id)
            IN /\ Commit(h1, nl1, queue_list)
               /\ file' = save_name_list_to_csv(h1, nl1)
         /\ last' = Ret("process_guard_gift", username, count, TRUE)
         /\ UNCHANGED <<cutline_list, sets, flags, lottery, state_file>>

(***************************************************************************)
(* Roster reload that keeps the queues                                     *)
(***************************************************************************)
\* queue_states[name]: the last queue_list item of that name; 0 if none
queue_states(h, ql, name) ==
    LET matched == SelectSeq(ql, LAMBDA i : h[i].name = name)
    IN IF matched = <<>> THEN 0 ELSE matched[Len(matched)]

\* the rebuilt roster objects: flags copied from queue_states by name
reloaded_items(h, ql, f) ==
    LET fresh == NewItems(f)
    IN [k \in DOMAIN fresh |->
          LET old == queue_states(h, ql, fresh[k].name)
          IN IF old = 0 THEN fresh[k]
             ELSE [fresh[k] EXCEPT !.in_queue = h[old].in_queue,
                                   !.is_cutline = h[old].is_cutline]]

\* name_to_item[name]: the last roster entry of that name; 0 if none
name_to_item(h, nl, name) ==
    LET matched == SelectSeq(nl, LAMBDA i : h[i].name = name)
    IN IF matched = <<>> THEN 0 ELSE matched[Len(matched)]

\* a repointing that drops the tickets whose owner left the roster
RECURSIVE update_queue_references_dropping(_, _, _, _)
update_queue_references_dropping(h, nl, ql, pos) ==
    IF pos > Len(ql) THEN [heap |-> h, queue_list |-> ql]
    ELSE LET queue_item == ql[pos]
             new_item   == name_to_item(h, nl, h[queue_item].name)
         IN IF new_item = 0
            THEN update_queue_references_dropping(h, nl, RemoveAt(ql, pos), pos)
            ELSE update_queue_references_dropping(
                    [h EXCEPT ![new_item].in_queue = TRUE,
                              ![new_item].is_cutline = h[queue_item].is_cutline],
                    nl, [ql EXCEPT ![pos] = new_item], pos + 1)

\* the loop of _update_queue_references from position pos on
RECURSIVE update_queue_references(_, _, _, _)
update_queue_references(h, nl, ql, pos) ==
    IF pos > Len(ql) THEN [heap |-> h, queue_list |-> ql]
    ELSE LET queue_item == ql[pos]
             new_item   == name_to_item(h, nl, h[queue_item].name)
         IN IF new_item = 0 THEN update_queue_references(h, nl, ql, pos + 1)
            ELSE update_queue_references(
                    [h EXCEPT ![new_item].in_queue = TRUE,
                              ![new_item].is_cutline = h[queue_item].is_cutline],
                    nl, [ql EXCEPT ![pos] = new_item], pos + 1)

\* reload_name_list_preserve_queues reading file content f
reload_with(f) ==
    LET items == reloaded_items(heap, queue_list, f)
        h1    == heap \o items
        nl1   == [k \in DOMAIN items |-> Len(heap) + k]
        r     == update_queue_references(h1, nl1, queue_list, 1)
    IN Commit(r.heap, nl1, r.queue_list)

\* reload_name_list (the reload button): the file as it is now; a missing
\* file is the one early return
reload_name_list_preserve_queues ==
    IF ~file_exists(file)
    THEN /\ last' = Ret("reload_name_list_preserve_queues", "", 0, FALSE)
         /\ UNCHANGED <<store, cutline_list, sets, flags, lottery, state_file, file>>
    ELSE /\ reload_with(file)
         /\ last' = Ret("reload_name_list_preserve_queues", "", 0, TRUE)
         /\ UNCHANGED <<cutline_list, sets, flags, lottery, state_file, file>>

\* check_name_list_file_changes: the roster file was rewritten outside the
\* program to content f, the poll sees the newer mtime and reloads
check_name_list_file_changes(f) ==
    /\ file' = f
    /\ IF ~file_exists(f)
       THEN /\ last' = Ret("check_name_list_file_changes", "", 0, FALSE)
            /\ UNCHANGED store
       ELSE /\ reload_with(f)
            /\ last' = Ret("check_name_list_file_changes", "", 0, TRUE)
    /\ UNCHANGED <<cutline_list, sets, flags, lottery, state_file>>

\* _check_config_changes when the configured roster path has changed to a
\* file of content f: load_name_list replaces the roster by fresh entries and
\* leaves the queues as they are; a missing file leaves the roster too
check_config_changes(f) ==
    /\ file' = f
    /\ IF ~file_exists(f)
       THEN UNCHANGED store
       ELSE Commit(NewItems(f) \o heap,
                   [k \in DOMAIN NewItems(f) |-> k],
                   [k \in DOMAIN queue_list |-> Len(NewItems(f)) + queue_list[k]])
    /\ last' = Ret("check_config_changes", "", 0, file_exists(f))
    /\ UNCHANGED <<cutline_list, sets, flags, lottery, state_file>>

(***************************************************************************)
(* Fair draw                                                               *)
(***************************************************************************)
\* deque(maxlen=10).append
add_recent_winner(ring, username) ==
    IF Len(ring) >= RingCapacity THEN Append(Tail(ring), username)
    ELSE Append(ring, username)

\* an exclusion test that forgets the boarded names
should_exclude_recent_only(username) ==
    username \in Range(recent_winners)

should_exclude_from_lottery(username) ==
    username \in Range(recent_winners) \/ username \in user_boarded

\* positions of queue_list that random_select may pick
available_users ==
    {i \in DOMAIN queue_list : ~should_exclude_from_lottery(heap[queue_list[i]].name)}

\* start_random_selection: random_select(2) runs first (and pushes the
\* winners on the ring), the is_animating check comes after it
start_random_selection ==
    IF Cardinality(available_users) < DrawCount
    THEN /\ last' = Ret("random_select", "", 0, FALSE)
         /\ UNCHANGED <<store, cutline_list, sets, flags, lottery, state_file, file>>
    ELSE \E i \in available_users, j \in available_users :
            /\ i # j
            /\ recent_winners' =
                  add_recent_winner(add_recent_winner(recent_winners,
                                                      heap[queue_list[i]].name),
                                    heap[queue_list[j]].name)
            /\ IF is_animating
               THEN UNCHANGED <<is_animating, pending>>
               ELSE /\ is_animating' = TRUE
                    /\ pending' = [indices |-> <<i, j>>,
                                   names   |-> <<heap[queue_list[i]].name,
                                                 heap[queue_list[j]].name>>,
                                   thread  |-> "select",
                                   picked  |-> <<>>,
                                   frame   |-> <<>>]
            /\ last' = [Ret("random_select", "", 0, TRUE) EXCEPT !.sel = <<i, j>>]
            /\ UNCHANGED <<store, cutline_list, sets, flags, file, state_file>>

\* the pop loop of move_selected_to_top over positions taken in descending
\* order; a position outside the list is skipped
RECURSIVE pop_selected(_, _, _)
pop_selected(ql, positions, selected_items) ==
    IF positions = <<>> THEN [queue_list |-> ql, selected_items |-> selected_items]
    ELSE IF Head(positions) \in DOMAIN ql
    THEN pop_selected(RemoveAt(ql, Head(positions)), Tail(positions),
                      Append(selected_items, ql[Head(positions)]))
    ELSE pop_selected(ql, Tail(positions), selected_items)

Reverse(s) == [k \in DOMAIN s |-> s[Len(s) + 1 - k]]

move_selected_to_top(ql, selected_indices) ==
    IF ql = <<>> \/ selected_indices = <<>> THEN ql
    ELSE LET desc == SortDesc(selected_indices, [i \in Range(selected_indices) |-> i])
             r    == pop_selected(ql, desc, <<>>)
         IN Reverse(r.selected_items) \o r.queue_list

\* rows a frame of the animation may pick: random.sample of two of the
\* rows whose owner is not a recent winner, of all rows when these are fewer
\* than two
frame_picks ==
    LET fresh == {i \in DOMAIN queue_list :
                     heap[queue_list[i]].name \notin Range(recent_winners)}
        pool  == IF Cardinality(fresh) < DrawCount THEN DOMAIN queue_list ELSE fresh
    IN IF Cardinality(pool) >= DrawCount
       THEN {<<i, j>> : i \in pool, j \in pool} \ {<<i, i>> : i \in pool}
       ELSE IF pool # {} THEN {<<i>> : i \in pool}
       ELSE {<<>>}

\* RandomSelectionAnimationThread.run, first half of a frame: the thread
\* reads queue_list and recent_winners and picks rows
animation_select ==
    /\ is_animating
    /\ pending.thread = "select"
    /\ \E picks \in frame_picks :
          pending' = [pending EXCEPT !.picked = picks, !.thread = "emit"]
    /\ UNCHANGED <<store, cutline_list, sets, flags, recent_winners,
                   is_animating, state_file, file, last>>

\* a thread that shows the first picked row by moving it to the head itself
animation_emit_moving ==
    /\ is_animating
    /\ pending.thread = "emit"
    /\ pending' = [pending EXCEPT !.picked = <<>>, !.thread = "select"]
    /\ Commit(heap, name_list,
              move_selected_to_top(queue_list, SubSeq(pending.picked, 1, 1)))
    /\ UNCHANGED <<cutline_list, sets, flags, recent_winners,
                   is_animating, state_file, file, last>>

\* second half of a frame: the thread reads the names at the picked rows
\* and emits update_display; a row that has left the list in between raises
\* IndexError, which run() catches and returns without animation_finished
animation_emit ==
    /\ is_animating
    /\ pending.thread = "emit"
    /\ IF \A k \in DOMAIN pending.picked : pending.picked[k] \in DOMAIN queue_list
       THEN pending' = [pending EXCEPT
                          !.frame = [k \in DOMAIN pending.picked |->
                                        heap[queue_list[pending.picked[k]]].name],
                          !.picked = <<>>,
                          !.thread = "select"]
       ELSE pending' = [pending EXCEPT !.picked = <<>>, !.thread = "dead"]
    /\ UNCHANGED <<store, cutline_list, sets, flags, recent_winners,
                   is_animating, state_file, file, last>>

\* on_lottery_finished: the animation thread has ended and its
\* animation_finished signal is delivered
on_lottery_finished ==
    /\ is_animating
    /\ pending.thread = "select"
    /\ is_animating' = FALSE
    /\ pending' = NoSelection
    /\ Commit(heap, name_list, move_selected_to_top(queue_list, pending.indices))
    /\ state_file' =
          IF queue_list = <<>> \/ pending.indices = <<>> THEN state_file
          ELSE save_state(heap, name_list,
                          move_selected_to_top(queue_list, pending.indices))
    /\ last' = Ret("on_lottery_finished", "", 0, TRUE)
    /\ UNCHANGED <<cutline_list, sets, flags, recent_winners, file>>

(***************************************************************************)
(* Shutdown and startup                                                    *)
(***************************************************************************)
\* MainWindow.closeEvent: save_state, then the application exits
closeEvent ==
    /\ state_file' = save_state(heap, name_list, queue_list)
    /\ last' = Ret("closeEvent", "", 0, TRUE)
    /\ UNCHANGED <<store, cutline_list, sets, flags, lottery, file>>

\* load_state on a state file that is there: the tickets and the roster
\* entries are built from their own dictionaries, so no ticket is the same
\* object as a roster entry afterwards
load_state ==
    LET items   == [k \in DOMAIN state_file.name_list |->
                       dict_to_item(state_file.name_list[k])]
        tickets == [k \in DOMAIN state_file.queue_list |->
                       dict_to_item(state_file.queue_list[k])]
    IN /\ Commit(items \o tickets,
                 [k \in DOMAIN items |-> k],
                 [k \in DOMAIN tickets |-> Len(items) + k])
       /\ queue_started' = state_file.queue_started
       /\ boarding_started' = state_file.boarding_started
       /\ user_queued' = state_file.user_queued
       /\ user_boarded' = state_file.user_boarded

\* a new process: QueueManager() loads the roster file if it is there, then
\* load_data takes the state file if there is one and the roster file
\* otherwise
load_data ==
    /\ cutline_list' = <<>>
    /\ user_cutline' = {}
    /\ cutline_started' = FALSE
    /\ recent_winners' = <<>>
    /\ is_animating' = FALSE
    /\ pending' = NoSelection
    /\ IF state_file.present
       THEN /\ load_state
            /\ last' = Ret("load_data", "", 0, TRUE)
       ELSE /\ heap' = NewItems(file)
            /\ name_list' = [k \in DOMAIN NewItems(file) |-> k]
            /\ queue_list' = <<>>
            /\ user_queued' = {}
            /\ user_boarded' = {}
            /\ queue_started' = FALSE
            /\ boarding_started' = FALSE
            /\ last' = Ret("load_data", "", 0, file_exists(file))
    /\ UNCHANGED <<file, state_file>>

(***************************************************************************)
(* The Qt event loop runs one handler at a time; the result of a call is   *)
(* visible until the loop takes up the next event.                         *)
(***************************************************************************)
next_event ==
    /\ last # Idle
    /\ last.op # "closeEvent"
    /\ last' = Idle
    /\ UNCHANGED <<store, cutline_list, sets, flags, lottery, state_file, file>>

\* the three sub-queues and grants on the roster the engine was built on
Next ==
    \/ last = Idle /\ start_queue
    \/ last = Idle /\ stop_queue
    \/ last = Idle /\ start_boarding
    \/ last = Idle /\ stop_boarding
    \/ last = Idle /\ start_cutline
    \/ last = Idle /\ stop_cutline
    \/ last = Idle /\ \E u \in Names : queue_request_within(u, MaxQueue)
    \/ last = Idle /\ \E u \in Names : process_cutline_request(u)
    \/ last = Idle /\ \E u \in Names, m \in BOOLEAN : process_boarding_request(u, m)
    \/ last = Idle /\ \E pos \in 1..MaxQueue : complete_queue_item(pos)
    \/ last = Idle /\ \E pos \in 1..MaxQueue : cancel_queue_item(pos)
    \/ last = Idle /\ \E u \in Names : complete_boarding_item(u)
    \/ last = Idle /\ \E u \in Names : delete_boarding_item(u)
    \/ last = Idle /\ \E u \in Names : complete_cutline_item(u)
    \/ last = Idle /\ \E u \in Names : delete_cutline_item(u)
    \/ last = Idle /\ \E u \in Names, c \in 0..MaxGrant : process_guard_gift(u, c)
    \/ next_event

Spec == Init /\ [][Next]_vars

\* the normal queue under roster reloads and file edits
NextReload ==
    \/ last = Idle /\ start_queue
    \/ last = Idle /\ stop_queue
    \/ last = Idle /\ \E u \in Names : queue_request_within(u, MaxQueue)
    \/ last = Idle /\ \E pos \in 1..MaxQueue : complete_queue_item(pos)
    \/ last = Idle /\ \E pos \in 1..MaxQueue : cancel_queue_item(pos)
    \/ last = Idle /\ reload_name_list_preserve_queues
    \/ last = Idle /\ \E f \in Files : check_name_list_file_changes(f)
    \/ next_event

SpecReload == Init /\ [][NextReload]_vars

\* all three sub-queues admitting while the roster file is edited, broken
\* or removed and reloaded
NextWatch ==
    \/ last = Idle /\ start_queue
    \/ last = Idle /\ start_cutline
    \/ last = Idle /\ \E u \in Names : queue_request_within(u, MaxQueue)
    \/ last = Idle /\ \E u \in Names : process_cutline_request(u)
    \/ last = Idle /\ \E u \in Names : process_boarding_request(u, TRUE)
    \/ last = Idle /\ reload_name_list_preserve_queues
    \/ last = Idle /\ \E f \in PolledFiles \cup {NoFile} : check_config_changes(f)
    \/ last = Idle /\ \E f \in WatchedFiles : check_name_list_file_changes(f)
    \/ next_event

SpecWatch == Init /\ [][NextWatch]_vars

\* the normal and the cutline queue, completions and grants of a process
\* that is shut down or killed and started again
NextPersist ==
    \/ last = Idle /\ start_queue
    \/ last = Idle /\ start_cutline
    \/ last = Idle /\ \E u \in Names : queue_request_within(u, MaxQueue)
    \/ last = Idle /\ \E u \in Names : process_cutline_request(u)
    \/ last = Idle /\ \E pos \in 1..MaxQueue : complete_queue_item(pos)
    \/ last = Idle /\ \E u \in Names, c \in 1..MaxGrant : process_guard_gift(u, c)
    \/ last = Idle /\ closeEvent
    \/ last.op = "closeEvent" /\ load_data
    \/ last = Idle /\ load_data
    \/ next_event

SpecPersist == Init /\ [][NextPersist]_vars

(***************************************************************************)
(* Roster lines as text.  Line(name, num) above stands for the text of a   *)
(* line whose name part holds no bracket; here a line is the sequence of   *)
(* its characters and parse_name_count / format_name_count work on it.     *)
(***************************************************************************)
MaxText == 4

\* the fullwidth brackets （ and ） are written [ and ] here
FULL_OPEN == "["
FULL_CLOSE == "]"

Chars == {"a", " ", "(", ")", FULL_OPEN, FULL_CLOSE, "0", "2"}

Texts == UNION {[1..n -> Chars] : n \in 0..MaxText}

RoundTripCredits == {1, 2, 9999}

DigitChars == <<"0", "1", "2", "3", "4", "5", "6", "7", "8", "9">>

\* str.strip()
RECURSIVE Strip(_)
Strip(s) ==
    IF s = <<>> THEN s
    ELSE IF Head(s) = " " THEN Strip(Tail(s))
    ELSE IF s[Len(s)] = " " THEN Strip(SubSeq(s, 1, Len(s) - 1))
    ELSE s

\* str.rfind(c) and str.find(c, from) as 1-based positions, 0 for -1
RFind(s, c) ==
    IF c \in Range(s) THEN CHOOSE k \in DOMAIN s :
                              s[k] = c /\ \A j \in DOMAIN s : s[j] = c => j <= k
    ELSE 0

Find(s, c, from) ==
    LET hits == {k \in DOMAIN s : s[k] = c /\ k >= from}
    IN IF hits = {} THEN 0 ELSE CHOOSE k \in hits : \A j \in hits : k <= j

\* int(count_str) succeeds on a non-empty string of decimal digits
IsInt(s) == s # <<>> /\ \A k \in DOMAIN s : s[k] \in Range(DigitChars)

RECURSIVE IntOf(_)
IntOf(s) ==
    IF s = <<>> THEN 0
    ELSE 10 * IntOf(SubSeq(s, 1, Len(s) - 1))
         + ((CHOOSE d \in DOMAIN DigitChars : DigitChars[d] = s[Len(s)]) - 1)

\* str(count) for count > 0
RECURSIVE Digits(_)
Digits(n) ==
    IF n < 10 THEN <<DigitChars[n + 1]>>
    ELSE Digits(n \div 10) \o <<DigitChars[(n % 10) + 1]>>

NoMatch == [name |-> <<>>, count |-> 0]

\* name and count cut out of s around an open bracket at open_pos, the count
\* ending before position stop
bracket_split(s, open_pos, stop) ==
    LET name      == Strip(SubSeq(s, 1, open_pos - 1))
        count_str == Strip(SubSeq(s, open_pos + 1, stop - 1))
    IN IF IsInt(count_str) /\ IntOf(count_str) > 0
       THEN [name |-> IF name # <<>> THEN name ELSE s, count |-> IntOf(count_str)]
       ELSE NoMatch

\* one turn of the first loop: "name(N)" with the last open bracket and the
\* first close bracket after it
closed_form(s, open_bracket, close_bracket) ==
    IF open_bracket \in Range(s) /\ close_bracket \in Range(s)
       /\ Find(s, close_bracket, RFind(s, open_bracket)) # 0
    THEN bracket_split(s, RFind(s, open_bracket),
                       Find(s, close_bracket, RFind(s, open_bracket)))
    ELSE NoMatch

\* one turn of the second loop: "name(N" with the last open bracket
open_form(s, open_bracket) ==
    IF open_bracket \in Range(s)
    THEN bracket_split(s, RFind(s, open_bracket), Len(s) + 1)
    ELSE NoMatch

\* parse_name_count on the text of a line
parse_name_count_text(name_str) ==
    LET s == Strip(name_str)
    IN IF s = <<>> THEN [name |-> <<>>, count |-> 1]
       ELSE IF closed_form(s, "(", ")") # NoMatch THEN closed_form(s, "(", ")")
       ELSE IF closed_form(s, FULL_OPEN, FULL_CLOSE) # NoMatch THEN closed_form(s, FULL_OPEN, FULL_CLOSE)
       ELSE IF open_form(s, "(") # NoMatch THEN open_form(s, "(")
       ELSE IF open_form(s, FULL_OPEN) # NoMatch THEN open_form(s, FULL_OPEN)
       ELSE [name |-> s, count |-> 1]

\* format_name_count giving the text of the line
format_name_count_text(name, count) ==
    IF count <= 1 THEN name ELSE name \o <<FULL_OPEN>> \o Digits(count)

\* the loader reads one line: last.sel[1] is the name the roster entry
\* gets, last.idx its credits, last.sel[2] the text; a blank line or an
\* empty name gives no entry
load_line(text) ==
    /\ last' = [Ret("parse_name_count", "",
                    parse_name_count_text(text).count,
                    Strip(text) # <<>> /\ parse_name_count_text(text).name # <<>>)
                  EXCEPT !.sel = <<parse_name_count_text(text).name, text>>]
    /\ UNCHANGED <<store, cutline_list, sets, flags, lottery, state_file, file>>

\* the entry read last is written with the given credits and the line is
\* read back: last.sel[1] and last.idx are the name and the credits the
\* loader gets, last.sel[2] the credits that were written
save_and_load_line(credits) ==
    /\ last.op = "parse_name_count"
    /\ last.ok
    /\ LET back == parse_name_count_text(format_name_count_text(last.sel[1], credits))
       IN last' = [Ret("format_name_count", "", back.count, TRUE)
                     EXCEPT !.sel = <<back.name, credits>>]
    /\ UNCHANGED <<store, cutline_list, sets, flags, lottery, state_file, file>>

\* lines read by the loader, written by a save and read again
NextText ==
    \/ last = Idle /\ \E text \in Texts : load_line(text)
    \/ \E credits \in RoundTripCredits : save_and_load_line(credits)
    \/ next_event

SpecText == Init /\ [][NextText]_vars

\* the handlers of the GUI thread (buttons, chat commands, the roster file
\* timer, the animation_finished signal) and the animation thread, whose
\* run() goes on while handlers run
NextAnim ==
    \/ last = Idle /\ start_queue
    \/ last = Idle /\ \E u \in Names : queue_request_within(u, MaxQueue)
    \/ last = Idle /\ \E pos \in 1..MaxQueue : cancel_queue_item(pos)
    \/ last = Idle /\ \E f \in PolledFiles : check_name_list_file_changes(f)
    \/ last = Idle /\ start_random_selection
    \/ animation_select
    \/ animation_emit
    \/ last = Idle /\ on_lottery_finished
    \/ next_event

SpecAnim == Init /\ [][NextAnim]_vars

\* owners of a roster long enough to fill the ring of recent winners
RingRoster == <<"A", "B", "C", "D", "E", "F", "G", "H", "I", "J", "K">>

\* a roster file of RingCapacity + 1 owners, one line and one credit each
RingFiles ==
    { [k \in 1..(RingCapacity + 1) |-> Line(RingRoster[k], 0)] }

\* the winners of three earlier draws, oldest first
EarlierWinners == SubSeq(RingRoster, 1, 3 * DrawCount)

\* a started queue that every owner of the roster has joined (each
\* admission sorts it by index) after three draws have been made
InitRing ==
    /\ \E f \in RingFiles :
          /\ file = f
          /\ heap = NewItems(f)
          /\ name_list = [k \in DOMAIN NewItems(f) |-> k]
          /\ queue_list = [k \in DOMAIN NewItems(f) |-> k]
          /\ user_queued = {NewItems(f)[k].name : k \in DOMAIN NewItems(f)}
    /\ cutline_list = <<>>
    /\ user_boarded = {}
    /\ user_cutline = {}
    /\ queue_started = TRUE
    /\ boarding_started = FALSE
    /\ cutline_started = FALSE
    /\ recent_winners = EarlierWinners
    /\ is_animating = FALSE
    /\ pending = NoSelection
    /\ state_file = NoState
    /\ last = Idle

\* repeated draws on a queue that nothing else changes
NextRing ==
    \/ last = Idle /\ start_random_selection
    \/ last = Idle /\ on_lottery_finished
    \/ next_event

SpecRing == InitRing /\ [][NextRing]_vars

\* draws on a normal queue whose owners may be boarded; the queue may hold
\* MaxLate tickets more than elsewhere
NextDraw ==
    \/ last = Idle /\ start_queue
    \/ last = Idle /\ stop_queue
    \/ last = Idle /\ \E u \in Names : queue_request_within(u, MaxQueue + MaxLate)
    \/ last = Idle /\ \E pos \in 1..(MaxQueue + MaxLate) : cancel_queue_item(pos)
    \/ last = Idle /\ \E u \in Names : process_boarding_request(u, TRUE)
    \/ last = Idle /\ start_random_selection
    \/ last = Idle /\ on_lottery_finished
    \/ next_event

SpecDraw == Init /\ [][NextDraw]_vars

(***************************************************************************)
(* Observations used by the properties                                     *)
(***************************************************************************)
\* credits of the roster entries, in name_list order
Credits == [k \in DOMAIN name_list |-> heap[name_list[k]].count]

\* owner names of the tickets of the two queues, in queue order
QueueNames == [k \in DOMAIN queue_list |-> heap[queue_list[k]].name]
CutlineNames == [k \in DOMAIN cutline_list |-> cutline_list[k].name]

\* roster entries of a name
EntriesOf(username) == {i \in Range(name_list) : heap[i].name = username}

\* what a step took from the roster (completions keep name_list as it is)
TotalDebit == SumSeq([k \in DOMAIN name_list |-> heap[name_list[k]].count
                                                 - heap'[name_list[k]].count])

\* no call of the step changed roster, tickets or membership sets
EngineUnchanged ==
    UNCHANGED <<heap, name_list, queue_list, cutline_list,
                user_queued, user_boarded, user_cutline>>

\* total credits over all roster entries of a name
TotalOf(username) ==
    LET own == SelectSeq(name_list, LAMBDA i : heap[i].name = username)
    IN SumSeq([k \in DOMAIN own |-> heap[own[k]].count])

\* credits of a name on entries with credits > 0 that no normal-queue ticket
\* refers to
AvailableCredit(username) ==
    LET own == SelectSeq(name_list, LAMBDA i : /\ heap[i].name = username
                                               /\ heap[i].count > 0
                                               /\ i \notin Range(queue_list))
    IN SumSeq([k \in DOMAIN own |-> heap[own[k]].count])

\* cost of the ticket at a position of the normal queue
TicketCost(pos) ==
    IF heap[queue_list[pos]].is_cutline THEN CUTLINE_COST ELSE NORMAL_COST

NoEntryGains ==
    \A k \in DOMAIN name_list : heap'[name_list[k]].count <= heap[name_list[k]].count

(***************************************************************************)
(* Properties                                                              *)
(***************************************************************************)

\* C1: in every reachable state every roster entry has credits >= 0.
C1_CreditsNonNegative ==
    \A k \in DOMAIN name_list : heap[name_list[k]].count >= 0

\* C2: single-debit conservation.  A completion call that succeeds removes
\* the ticket it completes and takes at most that ticket's cost from the
\* roster, no entry gaining; a completion call that fails changes no credits;
\* once completeCutline(name) has removed the ticket, name is no longer
\* admitted, and a call for a name that is not admitted (or for a position
\* that holds no ticket) fails.
C2_Step ==
    /\ last'.op = "complete_queue_item" =>
          IF last'.ok
          THEN /\ last'.idx \in DOMAIN queue_list
               /\ QueueNames' = RemoveAt(QueueNames, last'.idx)
               /\ TotalDebit >= 0
               /\ TotalDebit <= TicketCost(last'.idx)
               /\ NoEntryGains
          ELSE /\ last'.idx \notin DOMAIN queue_list
               /\ Credits' = Credits
    /\ last'.op = "complete_cutline_item" =>
          IF last'.ok
          THEN /\ TotalDebit >= 0
               /\ TotalDebit <= CUTLINE_COST
               /\ NoEntryGains
               /\ last'.name \notin Range(CutlineNames')
               /\ last'.name \notin user_cutline'
          ELSE Credits' = Credits
    /\ (last'.op = "complete_cutline_item" /\ last'.name \notin user_cutline)
          => ~last'.ok

C2_SingleDebit == [][C2_Step]_vars

\* a cutline completion has debited and removed its ticket
C2_Witness ==
    /\ last.op = "complete_cutline_item"
    /\ last.ok
    /\ last.name \notin user_cutline
    /\ \E k \in DOMAIN name_list :
          heap[name_list[k]].name = last.name /\ heap[name_list[k]].count = 0

\* C3: cancellation never debits.  Neither an admission nor a cancellation
\* changes any entry's credits; a cancellation of a ticket that was just
\* admitted succeeds, removes the ticket and clears the owner's membership.
C3_Step ==
    /\ last'.op \in {"process_queue_request", "process_cutline_request",
                     "process_boarding_request", "process_boarding_request_manual",
                     "cancel_queue_item", "delete_cutline_item",
                     "delete_boarding_item"}
          => Credits' = Credits
    /\ last'.op = "cancel_queue_item" =>
          /\ last'.ok <=> last'.idx \in DOMAIN queue_list
          /\ last'.ok => /\ QueueNames' = RemoveAt(QueueNames, last'.idx)
                         /\ last'.name = QueueNames[last'.idx]
                         /\ last'.name \notin user_queued'
    /\ last'.op = "delete_cutline_item" =>
          /\ last'.ok <=> last'.name \in user_cutline
          /\ last'.ok => /\ last'.name \notin Range(CutlineNames')
                         /\ last'.name \notin user_cutline'
    /\ last'.op = "delete_boarding_item" =>
          /\ last'.ok <=> last'.name \in user_boarded
          /\ last'.ok => /\ last'.name \notin user_boarded'
    /\ (last'.op = "process_queue_request" /\ last'.ok)
          => last'.name \in Range(QueueNames') /\ last'.name \in user_queued'
    /\ (last'.op = "process_cutline_request" /\ last'.ok)
          => last'.name \in Range(CutlineNames') /\ last'.name \in user_cutline'
    /\ (last'.op \in {"process_boarding_request", "process_boarding_request_manual"}
        /\ last'.ok)
          => last'.name \in user_boarded'

C3_CancelNeverDebits == [][C3_Step]_vars

\* a normal ticket has been cancelled: its owner is no longer admitted and
\* still holds the credits the admission found
C3_Witness ==
    /\ last.op = "cancel_queue_item"
    /\ last.ok
    /\ last.name \notin user_queued
    /\ TotalOf(last.name) >= NORMAL_COST

\* C4: when name holds a cutline ticket and name's entries total at least
\* CUTLINE_COST, completeCutline(name) debits exactly CUTLINE_COST, from
\* name's entries with credits > 0 in descending sequenceIndex order, each
\* giving min(its credits, amount still owed), and changes no other name's
\* entry.
C4_Step ==
    \A u \in Names :
       ( /\ last'.op = "complete_cutline_item"
         /\ last'.name = u
         /\ u \in Range(CutlineNames)
         /\ TotalOf(u) >= CUTLINE_COST )
       => /\ TotalDebit = CUTLINE_COST
          /\ NoEntryGains
          /\ \A i \in Range(name_list) : heap[i].name # u => heap'[i] = heap[i]
          /\ \A i \in EntriesOf(u) : heap[i].count <= 0 => heap'[i].count = heap[i].count
          /\ \A i \in EntriesOf(u) : heap'[i].count >= 0 \/ heap'[i].count = heap[i].count
          /\ \A i, j \in EntriesOf(u) :
                ( /\ heap[i].count > 0
                  /\ heap[i].index > heap[j].index
                  /\ heap'[j].count < heap[j].count )
                => heap'[i].count = 0

C4_ConsolidationOnCompletion == [][C4_Step]_vars

\* C5: completeCutline(name) is all-or-nothing: with a total below
\* CUTLINE_COST it fails and changes no credits, and no call debits a
\* positive total smaller than CUTLINE_COST.
C5_Step ==
    last'.op = "complete_cutline_item" =>
       /\ TotalOf(last'.name) < CUTLINE_COST => (~last'.ok /\ Credits' = Credits)
       /\ ~(TotalDebit > 0 /\ TotalDebit < CUTLINE_COST)

C5_CheckThenCommit == [][C5_Step]_vars

\* C6: requestCutlineAdmission(name) returns true iff the cutline sub-queue
\* is running, name is not in admittedCutlineNames and name's entries with
\* credits > 0 that are not currently queued total at least CUTLINE_COST; no
\* credits change, and a failed call changes nothing.
C6_Step ==
    last'.op = "process_cutline_request" =>
       /\ last'.ok <=> ( /\ cutline_started
                         /\ last'.name \notin user_cutline
                         /\ AvailableCredit(last'.name) >= CUTLINE_COST )
       /\ Credits' = Credits
       /\ ~last'.ok => EngineUnchanged

C6_CutlineAdmission == [][C6_Step]_vars

\* C7: while its sub-queue is stopped, a normal, cutline or non-manual
\* boarding request returns false and leaves roster, tickets and membership
\* sets unchanged; a manual boarding request succeeds exactly when the name
\* is not boarded and has an entry with credits > 0 that is not boarding,
\* whether or not boarding is running.
C7_Step ==
    /\ (last'.op = "process_queue_request" /\ ~queue_started)
          => (~last'.ok /\ EngineUnchanged)
    /\ (last'.op = "process_cutline_request" /\ ~cutline_started)
          => (~last'.ok /\ EngineUnchanged)
    /\ (last'.op = "process_boarding_request" /\ ~boarding_started)
          => (~last'.ok /\ EngineUnchanged)
    /\ last'.op = "process_boarding_request_manual" =>
          ( last'.ok <=>
               /\ last'.name \notin user_boarded
               /\ \E i \in EntriesOf(last'.name) :
                     heap[i].count > 0 /\ ~heap[i].in_boarding )

C7_StoppedRejects == [][C7_Step]_vars

\* a manual boarding has succeeded while boarding is stopped
C7_Witness ==
    /\ last.op = "process_boarding_request_manual"
    /\ last.ok
    /\ ~boarding_started
    /\ last.name \in user_boarded

\* C8: no owner name has more than one ticket in the normal queue, and no
\* owner name has more than one ticket in the cutline queue.
C8_NoDuplicateAdmission ==
    /\ \A i, j \in DOMAIN queue_list : QueueNames[i] = QueueNames[j] => i = j
    /\ \A i, j \in DOMAIN cutline_list : CutlineNames[i] = CutlineNames[j] => i = j

\* C9: after a successful requestNormalAdmission(name) the chosen entry has
\* inNormalQueue = true and name is in admittedNormalNames, and the flag
\* stays true for as long as the ticket is in the normal queue.
C9_AdmittedEntryFlagged ==
    /\ (last.op = "process_queue_request" /\ last.ok)
          => /\ last.name \in user_queued
             /\ \E k \in DOMAIN queue_list :
                   /\ heap[queue_list[k]].name = last.name
                   /\ heap[queue_list[k]].index = last.idx
                   /\ heap[queue_list[k]].in_queue
    /\ \A k \in DOMAIN queue_list : heap[queue_list[k]].in_queue

\* C10: in every reachable state the normal queue is in ascending
\* sequenceIndex order.
C10_QueueAscending ==
    \A i, j \in DOMAIN queue_list :
       i < j => heap[queue_list[i]].index <= heap[queue_list[j]].index

\* positions of the normal queue whose owner is neither a recent winner nor
\* boarded
EligiblePositions ==
    {i \in DOMAIN queue_list :
        /\ QueueNames[i] \notin Range(recent_winners)
        /\ QueueNames[i] \notin user_boarded}

\* C11: selectRandom(k) returns Empty or exactly k distinct positions of the
\* current normal queue whose owners are, at call time, neither in the ring
\* nor boarded; with fewer than k eligible tickets it returns Empty and
\* leaves ring and queue unchanged.
C11_Step ==
    last'.op = "random_select" =>
       /\ UNCHANGED <<heap, name_list, queue_list>>
       /\ IF last'.ok
          THEN /\ Len(last'.sel) = DrawCount
               /\ \A a, b \in DOMAIN last'.sel : last'.sel[a] = last'.sel[b] => a = b
               /\ Range(last'.sel) \subseteq EligiblePositions
          ELSE /\ last'.sel = <<>>
               /\ recent_winners' = recent_winners
       /\ Cardinality(EligiblePositions) < DrawCount => ~last'.ok

C12_FairDrawExclusion ==
    \A i, j \in DOMAIN recent_winners :
       (i < j /\ j - i <= RingCapacity) => recent_winners[i] # recent_winners[j]

\* the tickets of the normal queue, in queue order
Tickets == [k \in DOMAIN queue_list |-> heap[queue_list[k]]]

\* pairs of queue positions a < b whose owners are the two names a draw
\* returned
WinnerPositions(names) ==
    {p \in (DOMAIN queue_list) \X (DOMAIN queue_list) :
        /\ p[1] < p[2]
        /\ \/ QueueNames[p[1]] = names[1] /\ QueueNames[p[2]] = names[2]
           \/ QueueNames[p[1]] = names[2] /\ QueueNames[p[2]] = names[1]}

\* the queue with the tickets at positions a < b moved to the front, every
\* ticket keeping its order relative to the others of its group
MovedToFront(t, a, b) ==
    <<t[a], t[b]>> \o SelectSeq([k \in DOMAIN t |-> <<k, t[k]>>],
                               LAMBDA e : e[1] # a /\ e[1] # b)

Untagged(s) == [k \in DOMAIN s |-> IF k <= DrawCount THEN s[k] ELSE s[k][2]]

\* C13: when the move-to-front step of a draw runs and the owners the draw
\* returned still hold tickets, the tickets at the head of the normal queue
\* afterwards are the tickets of those owners in their previous relative
\* order, followed by all other tickets in their previous relative order.
C13_Step ==
    ( /\ last'.op = "on_lottery_finished"
      /\ WinnerPositions(pending.names) # {} )
    => \E p \in WinnerPositions(pending.names) :
          Tickets' = Untagged(MovedToFront(Tickets, p[1], p[2]))

C13_WinnersMovedToFront == [][C13_Step]_vars

\* the roster entries, in name_list order
Roster == [k \in DOMAIN name_list |-> heap[name_list[k]]]

\* C14: grantCredits(name, count) adds exactly one new roster entry
\* (name, count) with sequenceIndex = roster length + 1 and clear flags, and
\* leaves every existing entry, all tickets and the membership sets
\* unchanged.
C14_Step ==
    (last'.op = "process_guard_gift" /\ last'.ok)
    => /\ Len(Roster') = Len(Roster) + 1
       /\ SubSeq(Roster', 1, Len(Roster)) = Roster
       /\ Roster'[Len(Roster')] =
             QueueItem(last'.name, last'.idx, Len(Roster) + 1, FALSE)
       /\ Tickets' = Tickets
       /\ UNCHANGED <<cutline_list, user_queued, user_boarded, user_cutline>>

C14_GrantAppends == [][C14_Step]_vars

\* a grant went to a name that already had an entry, while a ticket was
\* queued
C14_Witness ==
    /\ last.op = "process_guard_gift"
    /\ last.ok
    /\ Len(name_list) >= 2
    /\ heap[name_list[1]].name = last.name
    /\ queue_list # <<>>

\* C15: between two loads no two roster entries have the same
\* sequenceIndex, entries appended by grantCredits included.
C15_UniqueSequenceIndex ==
    \A i, j \in DOMAIN name_list :
       heap[name_list[i]].index = heap[name_list[j]].index => i = j

\* a step that is a reload attempt, from the button or from the watcher
ReloadStep ==
    last'.op \in {"reload_name_list_preserve_queues", "check_name_list_file_changes"}

\* C16: a roster reload never creates or destroys a ticket: number and
\* owner-name order of the tickets of the normal and the cutline queue, the
\* three membership sets and the three running flags are the same after the
\* reload as before it, whatever the new file contents.
C16_Step ==
    ReloadStep =>
       /\ QueueNames' = QueueNames
       /\ CutlineNames' = CutlineNames
       /\ UNCHANGED <<user_queued, user_boarded, user_cutline>>
       /\ UNCHANGED <<queue_started, boarding_started, cutline_started>>

C16_ReloadKeepsTickets == [][C16_Step]_vars

\* a reload has run on a file that no longer lists the owner of a queued
\* ticket, with a cutline ticket queued and a name boarded
C16_Witness ==
    /\ last.op = "check_name_list_file_changes"
    /\ last.ok
    /\ \E k \in DOMAIN queue_list : queue_list[k] \notin Range(name_list)
    /\ cutline_list # <<>>
    /\ user_boarded # {}

\* C17: completing a normal ticket debits only roster entries whose name is
\* the ticket's owner, and when the roster has no entry of that owner no
\* credits change (also after reloads removed or renumbered lines).
C17_Step ==
    (last'.op = "complete_queue_item" /\ last'.ok)
    => LET owner == QueueNames[last'.idx]
       IN \A k \in DOMAIN name_list :
             heap'[name_list[k]].count # heap[name_list[k]].count
                => heap[name_list[k]].name = owner

C17_DebitsOwnerOnly == [][C17_Step]_vars

\* C18: when the reload triggered by the watcher fails (the file is missing,
\* or cannot be decoded from some line on), the roster after the attempt is
\* the roster before it: same entries, credits, indices and flags.
C18_Step ==
    (last'.op = "check_name_list_file_changes" /\ file' \in BrokenFiles)
    => Roster' = Roster

C18_FailedReloadKeepsRoster == [][C18_Step]_vars

\* credits a name can still spend: the sum over its roster entries with
\* credits > 0
SpendableCredit(username) ==
    SumSeq([k \in DOMAIN name_list |->
              IF heap[name_list[k]].name = username /\ heap[name_list[k]].count > 0
              THEN heap[name_list[k]].count ELSE 0])

\* C19: what is on disk always holds the credits of the running engine, so
\* a start of a new process (after a kill or after a shutdown) restores a
\* roster in which every name has the credits it had before: no debited
\* credit is back and no granted credit is gone.
C19_Step ==
    last'.op = "load_data"
    => \A u \in Names : SpendableCredit(u)' = SpendableCredit(u)

C19_RestartKeepsCredits == [][C19_Step]_vars

\* C20: a start that follows a shutdown restores what the engine held when
\* save_state wrote the state file: the three running flags, the tickets of
\* the normal queue and of the cutline queue in order, the whole roster and
\* the three membership sets.
C20_Step ==
    (last.op = "closeEvent" /\ last'.op = "load_data")
    => /\ UNCHANGED <<queue_started, boarding_started, cutline_started>>
       /\ Tickets' = Tickets
       /\ cutline_list' = cutline_list
       /\ Roster' = Roster
       /\ UNCHANGED <<user_queued, user_boarded, user_cutline>>

C20_SaveLoadRoundTrip == [][C20_Step]_vars

\* positions of the roster entries with credits > 0
Positive == {k \in DOMAIN name_list : heap[name_list[k]].count > 0}

\* place of entry k among the entries with credits > 0 when they are put in
\* ascending index order, entries of equal index in roster order
PlaceOf(k) ==
    Cardinality({j \in Positive :
                    \/ heap[name_list[j]].index < heap[name_list[k]].index
                    \/ /\ heap[name_list[j]].index = heap[name_list[k]].index
                       /\ j <= k})

\* the lines a save has to write: bare name for credits 1, name and count
\* for more
SavedRoster ==
    [n \in 1..Cardinality(Positive) |->
        LET k == CHOOSE k \in Positive : PlaceOf(k) = n
        IN Line(heap[name_list[k]].name,
                IF heap[name_list[k]].count = 1 THEN 0
                ELSE heap[name_list[k]].count)]

\* calls that end with save_name_list_immediately
SavingOps == {"complete_queue_item", "complete_boarding_item",
              "complete_cutline_item", "process_guard_gift"}

\* C21: every save writes exactly the roster entries with credits > 0, one
\* line each in ascending sequenceIndex order, the bare name for credits 1
\* and name（N for credits N > 1.
C21_Step ==
    /\ (last'.op \in SavingOps /\ last'.ok) => file' = SavedRoster'
    /\ file' # file => file' = SavedRoster'

C21_SaveWritesPositiveEntries == [][C21_Step]_vars

\* a completion has saved a roster from which an entry left with no credits
\* is dropped while an entry with several credits is written with its count
C21_Witness ==
    /\ last.op = "complete_queue_item"
    /\ last.ok
    /\ Len(file) < Len(name_list)
    /\ \E k \in DOMAIN file : file[k].num > 1

\* C22: a roster name written with credits 1, 2 or 9999 and parsed again
\* gives the same name and the same credits.
C22_Step ==
    (last.op = "parse_name_count" /\ last'.op = "format_name_count")
    => /\ last'.sel[1] = last.sel[1]
       /\ last'.idx = last'.sel[2]

C22_FormatParseRoundTrip == [][C22_Step]_vars

\* roster, tickets and membership sets
EngineState ==
    <<heap, name_list, queue_list, cutline_list,
      user_queued, user_boarded, user_cutline>>

\* a step of the animation thread
ThreadStep == pending'.thread # pending.thread /\ is_animating /\ is_animating'

\* C23: roster, tickets and membership sets change only in a step in which
\* the idle command loop runs one handler to its end; a reload by the
\* watcher starts only from the idle loop, never inside another handler; a
\* step of the animation thread changes none of them.
C23_Step ==
    /\ EngineState' # EngineState => (last = Idle /\ last' # Idle)
    /\ (last' # last /\ ReloadStep) => last = Idle
    /\ ThreadStep => (EngineState' = EngineState /\ last' = last)

C24_TicketsAreRosterEntries ==
    \A k \in DOMAIN queue_list : queue_list[k] \in Range(name_list)

\* C25: the owner of every ticket of the normal queue is in user_queued and
\* the owner of every ticket of the cutline queue is in user_cutline (so
\* that completion and cancellation by name find the ticket).
C25_TicketOwnersAdmitted ==
    /\ \A k \in DOMAIN queue_list : QueueNames[k] \in user_queued
    /\ \A k \in DOMAIN cutline_list : CutlineNames[k] \in user_cutline

\* positions of the roster entries of a name that carry the boarding flag
FlaggedForBoarding(username) ==
    {k \in DOMAIN Roster : Roster[k].name = username /\ Roster[k].in_boarding}

\* C26: a successful complete_boarding_item(name) takes NORMAL_COST from the
\* entry the boarding admission flagged and from no other entry; after it,
\* and after a successful delete_boarding_item(name), no entry of the name
\* has the boarding flag.
C26_Step ==
    /\ (last'.op = "complete_boarding_item" /\ last'.ok)
       => \E k \in FlaggedForBoarding(last'.name) :
             /\ Roster'[k].count = Roster[k].count - NORMAL_COST
             /\ \A j \in DOMAIN Roster \ {k} : Roster'[j].count = Roster[j].count
    /\ (last'.op \in {"complete_boarding_item", "delete_boarding_item"} /\ last'.ok)
       => \A j \in DOMAIN Roster' :
             Roster'[j].name = last'.name => ~Roster'[j].in_boarding

C26_BoardingCompletesFlaggedEntry == [][C26_Step]_vars

\* what the roster file says of an entry: name, credits, line
RosterLines ==
    [k \in DOMAIN Roster |->
        [name |-> Roster[k].name, count |-> Roster[k].count, index |-> Roster[k].index]]

\* what a reload must keep of an entry: credits and the two queue flags
RosterQueueState ==
    [k \in DOMAIN Roster |->
        [name |-> Roster[k].name, count |-> Roster[k].count, index |-> Roster[k].index,
         in_queue |-> Roster[k].in_queue, is_cutline |-> Roster[k].is_cutline]]

\* the roster position each ticket of the normal queue refers to; 0 for a
\* ticket that is no roster entry
TicketLines ==
    [k \in DOMAIN queue_list |->
        IF \E j \in DOMAIN name_list : name_list[j] = queue_list[k]
        THEN CHOOSE j \in DOMAIN name_list : name_list[j] = queue_list[k]
        ELSE 0]

\* C27: a reload that reads a roster file saying what the roster in memory
\* says (same names, credits and lines) changes nothing: every ticket keeps
\* its index and its roster line, every entry its credits and queue flags.
C27_Step ==
    (/\ last'.op \in {"reload_name_list_preserve_queues", "check_name_list_file_changes"}
     /\ last'.ok
     /\ load_name_list_from_csv(file', 1) = RosterLines)
    => /\ RosterQueueState' = RosterQueueState
       /\ TicketLines' = TicketLines
       /\ [k \in DOMAIN Tickets |-> Tickets[k].index]'
            = [k \in DOMAIN Tickets |-> Tickets[k].index]

C27_ReloadOfSameRosterIsNoOp == [][C27_Step]_vars

\* the normal queue as the window lists it: owner and index of each ticket
TicketKeys ==
    [k \in DOMAIN Tickets |-> [name |-> Tickets[k].name, index |-> Tickets[k].index]]

\* C28: a successful normal admission adds one ticket and leaves the tickets
\* that were queued before it in the order they had (so the winners a draw
\* moved to the front stay in front).
C28_Step ==
    (last'.op \in {"process_queue_request", "add_queue"} /\ last'.ok)
    => \E p \in DOMAIN TicketKeys' : RemoveAt(TicketKeys', p) = TicketKeys

C28_AdmissionKeepsQueueOrder == [][C28_Step]_vars

\* C29: a successful complete_queue_item leaves the owner of the removed
\* ticket in user_queued; a name in user_queued is refused by
\* process_queue_request; and a name that is in user_queued without a ticket
\* leaves the set only when start_queue clears it.
C29_Step ==
    /\ (last'.op = "complete_queue_item" /\ last'.ok) => last'.name \in user_queued'
    /\ (last'.op = "process_queue_request" /\ last'.ok) => last'.name \notin user_queued
    /\ \A u \in Names :
          (/\ u \in user_queued
           /\ u \notin Range(QueueNames)
           /\ u \notin user_queued') => last'.op = "start_queue"

C29_CompletedOwnerStaysAdmitted == [][C29_Step]_vars

\* the owners of the normal queue that have not boarded
DrawableOwners == Range(QueueNames) \ user_boarded

\* C30: while the normal queue has more than RingCapacity distinct owners
\* that have not boarded, a draw of DrawCount always finds enough eligible
\* tickets (so no state is reached in which every later draw is refused),
\* and a successful draw puts its winners at the end of the ring, which
\* keeps the RingCapacity most recent winners and nothing older.
C30_Step ==
    /\ Cardinality(DrawableOwners') > RingCapacity
       => Cardinality(available_users') >= DrawCount
    /\ (last'.op = "random_select" /\ last'.ok)
       => LET winners == [k \in DOMAIN last'.sel |-> QueueNames[last'.sel[k]]]
              all     == recent_winners \o winners
          IN recent_winners' =
                IF Len(all) <= RingCapacity THEN all
                ELSE SubSeq(all, Len(all) - RingCapacity + 1, Len(all))

C30_DrawsNeverStuck == [][C30_Step]_vars

====
